---------------------------- MODULE Spec2Model ----------------------------
(* Model of samples/bpf/xdp_redirect_cpu_user.c: the statistics poll loop  *)
(* (stats_poll), its double-buffered snapshots, the rate arithmetic and    *)
(* the report printed by stats_print, with the SIGINT handler int_exit.    *)
(*                                                                         *)
(* Scaling.  __u64 is modelled as the integers modulo 2^U64Bits and a C    *)
(* double as a binary floating-point number with MantBits significant      *)
(* bits, rounded to nearest (ties to even), as IEEE-754 does with 64 and   *)
(* 53 bits.  NANOSEC_PER_SEC (10^9 in the source) and MAX_CPUS (12 in the  *)
(* source) are scaled down likewise; the clock counts ticks of             *)
(* 1/NANOSEC_PER_SEC second.                                               *)
EXTENDS Integers, Sequences, FiniteSets, TLC

\* ------------------------------------------------------------- bounds
U64Bits == 10
MantBits == 8
NANOSEC_PER_SEC == 10
MAX_CPUS == 2
NrCpus == 2
MaxCycles == 2
MaxFaults == 1
BurstSize == 300

\* -------------------------------------------------- program constants
EXIT_OK == 0
EXIT_FAIL == 1
EXIT_FAIL_MEM == 5
interval == 2

\* ------------------------------------------------------------ numbers
RECURSIVE Pow2(_)
Pow2(n) == IF n = 0 THEN 1 ELSE 2 * Pow2(n - 1)

U64Mod == Pow2(U64Bits)

\* __u64 arithmetic: every result is reduced modulo 2^U64Bits.
U64(x) == x % U64Mod

\* A double: the value m * 2^e, m = 0 (and e = 0) or MantHalf <= m < MantLimit.
MantLimit == Pow2(MantBits)
MantHalf == Pow2(MantBits - 1)
DblZero == [m |-> 0, e |-> 0]

RECURSIVE DblNorm(_, _, _)
\* n/d * 2^e rounded to MantBits significant bits, to nearest, ties to even.
DblNorm(n, d, e) ==
    IF n >= d * MantLimit THEN DblNorm(n, 2 * d, e + 1)
    ELSE IF n < d * MantHalf THEN DblNorm(2 * n, d, e - 1)
    ELSE LET q == n \div d
             r == n % d
             up == (2 * r > d) \/ (2 * r = d /\ q % 2 = 1)
             m == IF up THEN q + 1 ELSE q
         IN IF m = MantLimit THEN [m |-> MantHalf, e |-> e + 1]
            ELSE [m |-> m, e |-> e]

DblRound(n, d) == IF n = 0 THEN DblZero ELSE DblNorm(n, d, 0)

\* (double) x for an unsigned integer x.
DblOfU64(x) == DblRound(x, 1)

\* a / b in double arithmetic (b > 0).
DblDiv(a, b) ==
    IF a.m = 0 THEN DblZero
    ELSE LET q == DblRound(a.m, b.m) IN [m |-> q.m, e |-> q.e + a.e - b.e]

DblGtZero(a) == a.m > 0

\* The integer part of a double (truncation toward zero).
DblTrunc(a) == IF a.e >= 0 THEN a.m * Pow2(a.e) ELSE a.m \div Pow2(0 - a.e)

\* Whether the integer part fits a __u64.
DblFitsU64(a) == a.e < 0 \/ (a.e <= U64Bits /\ a.m * Pow2(a.e) < U64Mod)

\* What a build may produce for (__u64) x when x is out of range (undefined
\* behaviour in C): 0, the sign bit alone, or the saturated maximum.
UBConv == {0, U64Mod \div 2, U64Mod - 1}

\* (__u64) a: the integer part, or the build's choice ub when out of range.
U64OfDbl(a, ub) == IF DblFitsU64(a) THEN DblTrunc(a) ELSE ub

\* -------------------------------------------------------- data model
\* struct datarec
Datarec(pr, dr) == [processed |-> pr, dropped |-> dr]

\* struct record; cpu is the per-CPU array, NULL when its malloc failed.
NULL == <<>>
CpuIdx == 0 .. (NrCpus - 1)
ZeroCpus == [i \in CpuIdx |-> Datarec(0, 0)]
Record(ts, tot, cpus) == [timestamp |-> ts, total |-> tot, cpu |-> cpus]

\* ------------------------------------------------------ rate arithmetic
\* A calc_period that never returns 0 (a zero difference counts as one tick);
\* C3 does not hold of it.
calc_period_min1(r, p) ==
    LET period == U64(r.timestamp - p.timestamp + U64Mod)
    IN DblDiv(DblOfU64(IF period > 0 THEN period ELSE 1),
              DblOfU64(NANOSEC_PER_SEC))

\* calc_period: the __u64 difference of the timestamps, in seconds.
calc_period(r, p) ==
    LET period == U64(r.timestamp - p.timestamp + U64Mod)
    IN IF period > 0
       THEN DblDiv(DblOfU64(period), DblOfU64(NANOSEC_PER_SEC))
       ELSE DblZero

\* A calc_pps that takes a counter that went down as no packets; C2 does not
\* hold of it.
calc_pps_clamped(r, p, period_, ub) ==
    IF DblGtZero(period_)
    THEN LET packets == IF r.processed >= p.processed
                        THEN r.processed - p.processed ELSE 0
         IN U64OfDbl(DblDiv(DblOfU64(packets), period_), ub)
    ELSE 0

\* calc_pps: packets / period_ converted back to __u64.
calc_pps(r, p, period_, ub) ==
    IF DblGtZero(period_)
    THEN LET packets == U64(r.processed - p.processed + U64Mod)
         IN U64OfDbl(DblDiv(DblOfU64(packets), period_), ub)
    ELSE 0

calc_drop_pps(r, p, period_, ub) ==
    IF DblGtZero(period_)
    THEN LET packets == U64(r.dropped - p.dropped + U64Mod)
         IN U64OfDbl(DblDiv(DblOfU64(packets), period_), ub)
    ELSE 0

\* ------------------------------------------------------------ snapshots
\* struct stats_record, as memset leaves it and with every per-CPU array
\* allocated and zeroed.
EnqIdx == 0 .. (MAX_CPUS - 1)
ZeroRecord == Record(0, Datarec(0, 0), ZeroCpus)
ZeroStats ==
    [rx_cnt |-> ZeroRecord, redir_err |-> ZeroRecord, kthread |-> ZeroRecord,
     enq |-> [k \in EnqIdx |-> ZeroRecord]]

\* The lookups of stats_collect, in the order it makes them: the map's fd
\* index, the key, and the record the values go to.
Call(fd, key, rec) == [fd |-> fd, key |-> key, rec |-> rec]
StatsCollectCalls ==
    <<Call(1, 0, "rx_cnt"), Call(2, 1, "redir_err")>>
    \o [i \in 1 .. MAX_CPUS |-> Call(3, i - 1, "enq")]
    \o <<Call(4, 0, "kthread")>>
NCalls == Len(StatsCollectCalls)

RecAt(sr, c) ==
    IF c.rec = "enq" THEN sr.enq[c.key]
    ELSE IF c.rec = "rx_cnt" THEN sr.rx_cnt
    ELSE IF c.rec = "redir_err" THEN sr.redir_err
    ELSE sr.kthread

RecPut(sr, c, r) ==
    IF c.rec = "enq" THEN [sr EXCEPT !.enq[c.key] = r]
    ELSE IF c.rec = "rx_cnt" THEN [sr EXCEPT !.rx_cnt = r]
    ELSE IF c.rec = "redir_err" THEN [sr EXCEPT !.redir_err = r]
    ELSE [sr EXCEPT !.kthread = r]

\* The malloc sites of alloc_stats_record: 0 is the stats_record itself,
\* 1 .. NCalls the per-CPU arrays of rx_cnt, redir_err, kthread, enq[0..].
AllocSiteCalls ==
    <<Call(1, 0, "rx_cnt"), Call(2, 1, "redir_err"), Call(4, 0, "kthread")>>
    \o [i \in 1 .. MAX_CPUS |-> Call(3, i - 1, "enq")]
NoFail == 0 - 1
AllocSites == 0 .. NCalls

\* What a build may do when malloc returns NULL: memset runs on the null
\* pointer before the test (undefined behaviour).  The write faults
\* ("segv"); or malloc+memset became calloc and the test still runs
\* ("exit_mem"); or it became calloc and the test, placed after a use of the
\* pointer, was deleted, so the null pointer is returned ("null").
UBAlloc == {"segv", "exit_mem", "null"}

\* alloc_stats_record with malloc failing at site fail (NoFail: nowhere).
alloc_stats_record(fail, oc) ==
    IF fail = NoFail THEN [res |-> "ok", rec |-> ZeroStats]
    ELSE IF oc = "exit_mem" THEN [res |-> "exit_mem", rec |-> ZeroStats]
    ELSE IF oc = "segv" \/ fail = 0 THEN [res |-> "segv", rec |-> ZeroStats]
    ELSE [res |-> "ok",
          rec |-> RecPut(ZeroStats, AllocSiteCalls[fail],
                         Record(0, Datarec(0, 0), NULL))]

\* ------------------------------------------------------------ collection
RECURSIVE SumProcessed(_, _)
SumProcessed(values, n) ==
    IF n = 0 THEN 0 ELSE U64(SumProcessed(values, n - 1) + values[n - 1].processed)

RECURSIVE SumDropped(_, _)
SumDropped(values, n) ==
    IF n = 0 THEN 0 ELSE U64(SumDropped(values, n - 1) + values[n - 1].dropped)

\* A map_collect_percpu that adds the processed values into both sums; C1
\* does not hold of it.
map_collect_percpu_mixed(rec, values, now) ==
    [timestamp |-> now,
     total |-> Datarec(SumProcessed(values, NrCpus), SumProcessed(values, NrCpus)),
     cpu |-> [i \in CpuIdx |-> Datarec(values[i].processed, values[i].dropped)]]

\* map_collect_percpu after a successful lookup that returned values and
\* with gettime() returning now.
map_collect_percpu(rec, values, now) ==
    [timestamp |-> now,
     total |-> Datarec(SumProcessed(values, NrCpus), SumDropped(values, NrCpus)),
     cpu |-> [i \in CpuIdx |-> Datarec(values[i].processed, values[i].dropped)]]

\* A swap that loses the temporary: both names end on the same buffer; C10
\* does not hold of it.
swap_alias(a, b) == <<b, b>>

\* Pointer swap trick: the values of (*a, *b) after swap(a, b).
swap(a, b) == <<b, a>>

\* ---------------------------------------------------------------- report
\* One printed line.  kind is "header", "cpu" (a per-CPU row), "total" (a
\* total or sum row) or "blank"; i is the CPU and to the target (-1: none);
\* pps and drop are the numbers printed with %.0f (drop -1: "(nan)"); t is
\* the period.  "segv" marks the place where the print loop reads through a
\* null per-CPU array.
Row(label, kind, i, to, pps, drop, t) ==
    [label |-> label, kind |-> kind, i |-> i, to |-> to,
     pps |-> pps, drop |-> drop, t |-> t]
HeaderRow == Row("XDP-cpumap", "header", 0 - 1, 0 - 1, 0, 0, DblZero)
BlankRow == Row("", "blank", 0 - 1, 0 - 1, 0, 0, DblZero)
SegvRow == Row("", "segv", 0 - 1, 0 - 1, 0, 0, DblZero)

\* double x = <__u64 value>, as %.0f prints it.
Printed(x) == DblTrunc(DblOfU64(x))

\* A loop that prints a row for every CPU, whatever its pps; C12 does not hold
\* of it.
PerCpuRowsAll(label, rec, prev, to, hasDrop, t, ub) ==
    IF ~DblGtZero(t) THEN <<>>
    ELSE IF rec.cpu = NULL \/ prev.cpu = NULL THEN <<SegvRow>>
    ELSE [n \in 1 .. NrCpus |->
            Row(label, "cpu", n - 1, to,
                Printed(calc_pps(rec.cpu[n - 1], prev.cpu[n - 1], t, ub)),
                IF hasDrop
                THEN Printed(calc_drop_pps(rec.cpu[n - 1], prev.cpu[n - 1], t, ub))
                ELSE 0 - 1,
                t)]

\* The for loop over the CPUs of one record pair: a row for each CPU whose
\* pps is above 0.  calc_pps reads the arrays only when the period is above 0.
PerCpuRows(label, rec, prev, to, hasDrop, t, ub) ==
    IF ~DblGtZero(t) THEN <<>>
    ELSE IF rec.cpu = NULL \/ prev.cpu = NULL THEN <<SegvRow>>
    ELSE LET row(i) ==
                 Row(label, "cpu", i, to,
                     Printed(calc_pps(rec.cpu[i], prev.cpu[i], t, ub)),
                     IF hasDrop
                     THEN Printed(calc_drop_pps(rec.cpu[i], prev.cpu[i], t, ub))
                     ELSE 0 - 1,
                     t)
             all == [n \in 1 .. NrCpus |-> row(n - 1)]
         IN SelectSeq(all, LAMBDA r : r.pps > 0)

TotalRow(label, rec, prev, to, hasDrop, t, ub) ==
    Row(label, "total", 0 - 1, to,
        Printed(calc_pps(rec.total, prev.total, t, ub)),
        IF hasDrop THEN Printed(calc_drop_pps(rec.total, prev.total, t, ub))
        ELSE 0 - 1,
        t)

\* XDP rx_cnt: per-CPU rows, then the total row in every report.
RxBlock(sr, sp, ub) ==
    LET t == calc_period(sr.rx_cnt, sp.rx_cnt)
    IN PerCpuRows("XDP-RX", sr.rx_cnt, sp.rx_cnt, 0 - 1, FALSE, t, ub)
       \o <<TotalRow("XDP-RX", sr.rx_cnt, sp.rx_cnt, 0 - 1, FALSE, t, ub)>>

\* cpumap enqueue stats of one target: per-CPU rows, then the sum row when
\* its pps is above 0.
EnqBlock(sr, sp, to_cpu, ub) ==
    LET t == calc_period(sr.enq[to_cpu], sp.enq[to_cpu])
        sum == TotalRow("cpumap-enqueue", sr.enq[to_cpu], sp.enq[to_cpu],
                        to_cpu, TRUE, t, ub)
    IN PerCpuRows("cpumap-enqueue", sr.enq[to_cpu], sp.enq[to_cpu],
                  to_cpu, TRUE, t, ub)
       \o (IF sum.pps > 0 THEN <<sum>> ELSE <<>>)

RECURSIVE EnqBlocks(_, _, _, _)
EnqBlocks(sr, sp, n, ub) ==
    IF n = 0 THEN <<>>
    ELSE EnqBlocks(sr, sp, n - 1, ub) \o EnqBlock(sr, sp, n - 1, ub)

KthreadBlock(sr, sp, ub) ==
    LET t == calc_period(sr.kthread, sp.kthread)
    IN PerCpuRows("cpumap_kthread", sr.kthread, sp.kthread, 0 - 1, TRUE, t, ub)
       \o <<TotalRow("cpumap_kthread", sr.kthread, sp.kthread, 0 - 1, TRUE, t, ub)>>

RedirErrBlock(sr, sp, ub) ==
    LET t == calc_period(sr.redir_err, sp.redir_err)
    IN PerCpuRows("redirect_err", sr.redir_err, sp.redir_err, 0 - 1, TRUE, t, ub)
       \o <<TotalRow("redirect_err", sr.redir_err, sp.redir_err, 0 - 1, TRUE, t, ub)>>

\* A stats_print with the redirect_err block before the cpumap_kthread block;
\* C14 does not hold of it.
stats_print_err_first(stats_rec, stats_prev, ub) ==
    <<HeaderRow>>
    \o RxBlock(stats_rec, stats_prev, ub)
    \o EnqBlocks(stats_rec, stats_prev, MAX_CPUS, ub)
    \o RedirErrBlock(stats_rec, stats_prev, ub)
    \o KthreadBlock(stats_rec, stats_prev, ub)
    \o <<BlankRow>>

\* Everything stats_print would print, in order; the lines after a "segv"
\* row are never reached.
stats_print(stats_rec, stats_prev, ub) ==
    <<HeaderRow>>
    \o RxBlock(stats_rec, stats_prev, ub)
    \o EnqBlocks(stats_rec, stats_prev, MAX_CPUS, ub)
    \o KthreadBlock(stats_rec, stats_prev, ub)
    \o RedirErrBlock(stats_rec, stats_prev, ub)
    \o <<BlankRow>>

\* ----------------------------------------------------------------- state
VARIABLES
    pc,        \* where stats_poll stands, or "exited" / "crashed"
    ci,        \* the next lookup of the running stats_collect
    heap,      \* the stats_record buffers malloc has returned, in order
    record,    \* stats_poll's pointer 'record': an index of heap, 0 unset
    prev,      \* stats_poll's pointer 'prev'
    clock,     \* CLOCK_MONOTONIC, in ticks
    kern,      \* the dataplane's per-CPU counters, one array per lookup
    fed,       \* time has passed since the last stats_collect ended
    out,       \* the lines written to stdout by the current stats_print
    todo,      \* the lines the running stats_print has still to write
    cycle,     \* the reports completed
    stderr,    \* the messages written to stderr
    status,    \* the exit status, -1 while the process runs
    sig,       \* "none", or "handler" once SIGINT has been delivered
    unlinked,  \* set_link_xdp_fd(ifindex, -1) has been called and returned
    ifindex,   \* the interface index main resolved
    failed,    \* history: the lookups that failed in the latest stats_collect
    nomem,     \* history: a malloc has returned NULL
    views,     \* history: what the last three stats_collect calls were given
    cin,       \* the arguments of a stand-alone rate computation
    cout       \* its results

vars == <<pc, ci, heap, record, prev, clock, kern, fed, out, todo, cycle,
          stderr, status, sig, unlinked, ifindex, failed, nomem, views, cin,
          cout>>

progvars == <<pc, ci, heap, record, prev, clock, kern, fed, out, todo, cycle,
              stderr, status, sig, unlinked, ifindex, failed, nomem, views>>

Msg(text, key) == [msg |-> text, key |-> key]
MsgLookup(key) == Msg("ERR: bpf_map_lookup_elem failed", key)
MsgGettime == Msg("Error with gettimeofday!", 0)
MsgMem == Msg("Mem alloc error", 0)
MsgInterrupted == Msg("Interrupted: Removing XDP program", 0)

CalcIdle == [rec |-> ZeroRecord, prev |-> ZeroRecord]
CalcNone == [done |-> FALSE, t |-> DblZero, pps |-> 0, drop |-> 0, rows |-> <<>>]

Alive == pc \notin {"exited", "crashed", "calc", "mono"}
Running == Alive /\ sig = "none"

Init ==
    /\ pc = "alloc_record"
    /\ ci = 1
    /\ heap = <<>>
    /\ record = 0
    /\ prev = 0
    /\ clock = 0
    /\ kern = [j \in 1 .. NCalls |-> ZeroCpus]
    /\ fed = FALSE
    /\ out = <<>>
    /\ todo = <<>>
    /\ cycle = 0
    /\ stderr = <<>>
    /\ status = 0 - 1
    /\ sig = "none"
    /\ unlinked = FALSE
    /\ ifindex = 1
    /\ failed = {}
    /\ nomem = FALSE
    /\ views = <<>>
    /\ cin = CalcIdle
    /\ cout = CalcNone

\* The process image is gone once the process has ended.
Gone ==
    /\ heap' = <<>> /\ record' = 0 /\ prev' = 0
    /\ ci' = 1 /\ fed' = FALSE /\ todo' = <<>> /\ failed' = {}
    /\ views' = <<>>

\* exit(code) after printing msg on stderr; exit flushes stdout.
Exit(code, msg) ==
    /\ pc' = "exited"
    /\ status' = code
    /\ stderr' = Append(stderr, msg)
    /\ Gone
    /\ UNCHANGED <<clock, kern, out, cycle, sig, unlinked, ifindex, cin, cout>>

\* SIGSEGV.
Crash ==
    /\ pc' = "crashed"
    /\ Gone
    /\ UNCHANGED <<clock, kern, out, cycle, stderr, status, sig, unlinked,
                   ifindex, cin, cout>>

\* ------------------------------------------------------------ environment
DtTick == NANOSEC_PER_SEC \div 2

\* What one burst of traffic adds to the counters of lookup j on CPU i; the
\* last enqueue target gets no traffic before the first report.
BurstInc(j, i) ==
    LET c == StatsCollectCalls[j]
        idle == c.rec = "enq" /\ c.key = MAX_CPUS - 1 /\ MAX_CPUS > 1 /\ cycle = 0
        dropper == c.rec \in {"kthread", "redir_err"}
    IN IF idle THEN Datarec(0, 0)
       ELSE IF i = 0 THEN Datarec(BurstSize, 1)
       ELSE IF i = 1 THEN (IF dropper THEN Datarec(0, BurstSize)
                           ELSE Datarec(BurstSize \div 2, 0))
       ELSE Datarec(0, 0)

\* Time passes before a stats_collect starts, with or without traffic.
Elapse(burst) ==
    /\ Running
    /\ pc \in {"baseline", "collect"}
    /\ ci = 1
    /\ ~fed
    /\ fed' = TRUE
    /\ clock' = clock + DtTick
    /\ kern' = IF burst
               THEN [j \in 1 .. NCalls |->
                       [i \in CpuIdx |->
                          Datarec(U64(kern[j][i].processed + BurstInc(j, i).processed),
                                  U64(kern[j][i].dropped + BurstInc(j, i).dropped))]]
               ELSE kern
    /\ UNCHANGED <<pc, ci, heap, record, prev, out, todo, cycle, stderr, status, sig,
                   unlinked, ifindex, failed, views, nomem, cin, cout>>

\* SIGINT arrives; the handler runs before the program's next step.
Deliver ==
    /\ Running
    /\ sig' = "handler"
    /\ UNCHANGED <<pc, ci, heap, record, prev, clock, kern, fed, out, todo, cycle,
                   stderr, status, unlinked, ifindex, failed, views, nomem, cin, cout>>

\* ---------------------------------------------------------------- program
\* An int_exit that never detaches; C7 does not hold of it.
int_exit_never_unlinks(ix) == FALSE

\* int_exit calls set_link_xdp_fd(ifindex, -1, xdp_flags) when ifindex > -1.
int_exit_unlinks(ix) == ix > 0 - 1

\* int_exit, the SIGINT handler: message, detach, exit(EXIT_OK).
IntExit ==
    /\ Alive
    /\ sig = "handler"
    /\ unlinked' = (unlinked \/ int_exit_unlinks(ifindex))
    /\ pc' = "exited"
    /\ status' = EXIT_OK
    /\ stderr' = Append(stderr, MsgInterrupted)
    /\ Gone
    /\ UNCHANGED <<clock, kern, out, cycle, sig, ifindex, nomem, cin, cout>>

\* record = alloc_stats_record();
AllocRecord ==
    /\ Running
    /\ pc = "alloc_record"
    /\ \E fail \in AllocSites \cup {NoFail}, oc \in UBAlloc :
         LET a == alloc_stats_record(fail, oc)
         IN /\ nomem' = (nomem \/ fail # NoFail)
            /\ \/ /\ a.res = "ok"
                  /\ heap' = Append(heap, a.rec)
                  /\ record' = Len(heap) + 1
                  /\ pc' = "alloc_prev"
                  /\ UNCHANGED <<ci, prev, clock, kern, fed, out, todo, cycle, stderr,
                                 status, sig, unlinked, ifindex, failed, views, cin, cout>>
               \/ /\ a.res = "exit_mem"
                  /\ Exit(EXIT_FAIL_MEM, MsgMem)
               \/ /\ a.res = "segv"
                  /\ Crash

\* A stats_poll whose 'prev' is made to point to the buffer of 'record'; C19
\* does not hold of it.
AllocPrevAliased ==
    /\ Running
    /\ pc = "alloc_prev"
    /\ prev' = record
    /\ pc' = "baseline"
    /\ UNCHANGED <<ci, heap, record, clock, kern, fed, out, todo, cycle, stderr,
                   status, sig, unlinked, ifindex, failed, views, nomem, cin, cout>>

\* prev = alloc_stats_record();
AllocPrev ==
    /\ Running
    /\ pc = "alloc_prev"
    /\ \E fail \in AllocSites \cup {NoFail}, oc \in UBAlloc :
         LET a == alloc_stats_record(fail, oc)
         IN /\ nomem' = (nomem \/ fail # NoFail)
            /\ \/ /\ a.res = "ok"
                  /\ heap' = Append(heap, a.rec)
                  /\ prev' = Len(heap) + 1
                  /\ pc' = "baseline"
                  /\ UNCHANGED <<ci, record, clock, kern, fed, out, todo, cycle, stderr,
                                 status, sig, unlinked, ifindex, failed, views, cin, cout>>
               \/ /\ a.res = "exit_mem"
                  /\ Exit(EXIT_FAIL_MEM, MsgMem)
               \/ /\ a.res = "segv"
                  /\ Crash

InCollect == pc \in {"baseline", "collect"}

\* A stats_poll that prints a report for the baseline collection; C11 does not
\* hold of it.
AdvanceReportsBaseline ==
    /\ fed' = FALSE
    /\ IF ci < NCalls
       THEN ci' = ci + 1 /\ pc' = pc
       ELSE ci' = 1 /\ pc' = "print_enter"

\* Where stats_poll goes after the lookup ci of stats_collect returns.
Advance ==
    /\ fed' = FALSE
    /\ IF ci < NCalls
       THEN ci' = ci + 1 /\ pc' = pc
       ELSE ci' = 1 /\ pc' = (IF pc = "baseline" THEN "swap" ELSE "print_enter")

\* History kept when stats_collect returns: the clock and the counters its
\* lookups were given and the lookups f that failed; the last three are kept.
Viewed(f) ==
    views' = IF ci < NCalls THEN views
             ELSE LET v == Append(views, [t |-> U64(clock), k |-> kern, f |-> f])
                  IN IF Len(v) > 3 THEN Tail(v) ELSE v

NumLookupErrs == Len(SelectSeq(stderr, LAMBDA m : m.msg = MsgLookup(0).msg))

\* One map_collect_percpu of stats_collect(record): the lookup succeeds and
\* so does gettime; the record is overwritten (a null per-CPU array faults).
MapCollectOk ==
    /\ Running
    /\ InCollect
    /\ LET c == StatsCollectCalls[ci]
           rec == RecAt(heap[record], c)
       IN IF rec.cpu = NULL
          THEN Crash /\ UNCHANGED nomem
          ELSE /\ heap' = [heap EXCEPT ![record] =
                             RecPut(@, c, map_collect_percpu(rec, kern[ci], U64(clock)))]
               /\ Advance
               /\ Viewed(failed)
               /\ UNCHANGED <<record, prev, clock, kern, out, todo, cycle, stderr,
                              status, sig, unlinked, ifindex, failed, nomem, cin, cout>>

\* A lookup failure that exits, as the failure of gettime does; C8 does not
\* hold of it.
MapCollectLookupFailExits ==
    /\ Running
    /\ InCollect
    /\ NumLookupErrs < MaxFaults
    /\ Exit(EXIT_FAIL, MsgLookup(StatsCollectCalls[ci].key))
    /\ UNCHANGED nomem

\* A lookup failure that zeroes the record's timestamp and total before it
\* returns; C18 does not hold of it.
MapCollectLookupFailClears ==
    /\ Running
    /\ InCollect
    /\ NumLookupErrs < MaxFaults
    /\ stderr' = Append(stderr, MsgLookup(StatsCollectCalls[ci].key))
    /\ failed' = failed \cup {ci}
    /\ heap' = [heap EXCEPT ![record] =
                  RecPut(@, StatsCollectCalls[ci],
                         Record(0, Datarec(0, 0),
                                RecAt(@, StatsCollectCalls[ci]).cpu))]
    /\ Advance
    /\ Viewed(failed \cup {ci})
    /\ UNCHANGED <<record, prev, clock, kern, out, todo, cycle, status, sig,
                   unlinked, ifindex, nomem, cin, cout>>

\* A lookup failure that falls back on the values of the previous snapshot,
\* copying them into the record; C20 does not hold of it.
MapCollectLookupFailCopiesPrev ==
    /\ Running
    /\ InCollect
    /\ NumLookupErrs < MaxFaults
    /\ stderr' = Append(stderr, MsgLookup(StatsCollectCalls[ci].key))
    /\ failed' = failed \cup {ci}
    /\ heap' = [heap EXCEPT ![record] =
                  RecPut(@, StatsCollectCalls[ci],
                         RecAt(heap[prev], StatsCollectCalls[ci]))]
    /\ Advance
    /\ Viewed(failed \cup {ci})
    /\ UNCHANGED <<record, prev, clock, kern, out, todo, cycle, status, sig,
                   unlinked, ifindex, nomem, cin, cout>>

\* bpf_map_lookup_elem fails: message, return false, the record untouched.
MapCollectLookupFail ==
    /\ Running
    /\ InCollect
    /\ NumLookupErrs < MaxFaults
    /\ stderr' = Append(stderr, MsgLookup(StatsCollectCalls[ci].key))
    /\ failed' = failed \cup {ci}
    /\ Advance
    /\ Viewed(failed \cup {ci})
    /\ UNCHANGED <<heap, record, prev, clock, kern, out, todo, cycle, status, sig,
                   unlinked, ifindex, nomem, cin, cout>>

\* The lookup succeeds and clock_gettime fails: gettime exits.
MapCollectGettimeFail ==
    /\ Running
    /\ InCollect
    /\ Exit(EXIT_FAIL, MsgGettime)
    /\ UNCHANGED nomem

\* A loop whose swap does nothing; C17 does not hold of it.
SwapSkipped ==
    /\ Running
    /\ pc = "swap"
    /\ pc' = "collect"
    /\ failed' = {}
    /\ UNCHANGED <<ci, heap, record, prev, clock, kern, fed, out, todo, cycle, stderr,
                   status, sig, unlinked, ifindex, nomem, views, cin, cout>>

\* swap(&prev, &record);
Swap ==
    /\ Running
    /\ pc = "swap"
    /\ LET s == swap(prev, record)
       IN prev' = s[1] /\ record' = s[2]
    /\ pc' = "collect"
    /\ failed' = {}
    /\ UNCHANGED <<ci, heap, clock, kern, fed, out, todo, cycle, stderr, status, sig,
                   unlinked, ifindex, nomem, views, cin, cout>>

\* A stats_print that remembers it has run: it prints the header in the
\* first report only; C15 does not hold of it.
StatsPrintEnterHeaderOnce ==
    /\ Running
    /\ pc = "print_enter"
    /\ \E ub \in UBConv :
         todo' = IF cycle = 0 THEN stats_print(heap[record], heap[prev], ub)
                 ELSE Tail(stats_print(heap[record], heap[prev], ub))
    /\ pc' = "print"
    /\ UNCHANGED <<ci, heap, record, prev, clock, kern, fed, out, cycle, stderr,
                   status, sig, unlinked, ifindex, failed, views, nomem, cin, cout>>

\* stats_print(record, prev) is entered: the lines it will print are fixed by
\* the two buffers, which nothing writes while it runs.
StatsPrintEnter ==
    /\ Running
    /\ pc = "print_enter"
    /\ \E ub \in UBConv : todo' = stats_print(heap[record], heap[prev], ub)
    /\ pc' = "print"
    /\ UNCHANGED <<ci, heap, record, prev, clock, kern, fed, out, cycle, stderr,
                   status, sig, unlinked, ifindex, failed, views, nomem, cin, cout>>

\* One printf of stats_print; the last one is followed by fflush and the
\* return.  A read through a null per-CPU array faults instead.
StatsPrintStep ==
    /\ Running
    /\ pc = "print"
    /\ IF Head(todo).kind = "segv"
       THEN Crash /\ UNCHANGED nomem
       ELSE /\ out' = Append(out, Head(todo))
            /\ todo' = Tail(todo)
            /\ pc' = (IF Len(todo) = 1 THEN "sleep" ELSE "print")
            /\ cycle' = (IF Len(todo) = 1 THEN cycle + 1 ELSE cycle)
            /\ UNCHANGED <<ci, heap, record, prev, clock, kern, fed, stderr,
                           status, sig, unlinked, ifindex, failed, views, nomem, cin, cout>>

\* sleep(interval); the next iteration starts a new report.
Sleep ==
    /\ Running
    /\ pc = "sleep"
    /\ cycle < MaxCycles
    /\ clock' = clock + interval * NANOSEC_PER_SEC
    /\ out' = <<>>
    /\ pc' = "swap"
    /\ UNCHANGED <<ci, todo, heap, record, prev, kern, fed, cycle, stderr, status,
                   sig, unlinked, ifindex, failed, views, nomem, cin, cout>>

Next ==
    \/ AllocRecord
    \/ AllocPrev
    \/ \E burst \in BOOLEAN : Elapse(burst)
    \/ MapCollectOk
    \/ MapCollectLookupFail
    \/ MapCollectGettimeFail
    \/ Swap
    \/ StatsPrintEnter
    \/ StatsPrintStep
    \/ Sleep
    \/ Deliver
    \/ IntExit

Spec == Init /\ [][Next]_vars

\* The handler runs to its end once the signal is delivered.
FairSpec == Spec /\ WF_vars(IntExit)

\* ------------------------------------------- the rate functions on their own
\* The counter and timestamp values the stand-alone computations are run on.
CalcVals == {0, 1, 3, 5, 50, 100, 200, 250, U64Mod - 1}
CalcDrops == {0, 7, U64Mod - 2}
CalcTimes == {0, 1, 3, NANOSEC_PER_SEC, 2 * NANOSEC_PER_SEC, U64Mod - 1}

\* A record whose total and whose CPU 0 hold the data point d.
CalcRecord(ts, d) ==
    Record(ts, d, [i \in CpuIdx |-> IF i = 0 THEN d ELSE Datarec(0, 0)])

InitCalc ==
    /\ pc = "calc"
    /\ ci = 1
    /\ heap = <<>>
    /\ record = 0
    /\ prev = 0
    /\ clock = 0
    /\ kern = [j \in 1 .. NCalls |-> ZeroCpus]
    /\ fed = FALSE
    /\ out = <<>>
    /\ todo = <<>>
    /\ cycle = 0
    /\ stderr = <<>>
    /\ status = 0 - 1
    /\ sig = "none"
    /\ unlinked = FALSE
    /\ ifindex = 1
    /\ failed = {}
    /\ nomem = FALSE
    /\ views = <<>>
    /\ cin \in {[rec |-> CalcRecord(rt, Datarec(rp, rd)),
                 prev |-> CalcRecord(pt, Datarec(pp, pd))] :
                  rt \in CalcTimes, pt \in CalcTimes, rp \in CalcVals,
                  pp \in CalcVals, rd \in CalcDrops, pd \in CalcDrops}
    /\ cout = CalcNone

\* What stats_print computes for one record pair: the period, the rates of
\* the total pair, and the rows of a block with per-CPU rows and a total row.
CalcApply ==
    /\ pc = "calc"
    /\ ~cout.done
    /\ \E ub \in UBConv :
         LET t == calc_period(cin.rec, cin.prev)
         IN cout' = [done |-> TRUE,
                     t |-> t,
                     pps |-> calc_pps(cin.rec.total, cin.prev.total, t, ub),
                     drop |-> calc_drop_pps(cin.rec.total, cin.prev.total, t, ub),
                     rows |-> PerCpuRows("cpumap_kthread", cin.rec, cin.prev,
                                         0 - 1, TRUE, t, ub)
                              \o <<TotalRow("cpumap_kthread", cin.rec, cin.prev,
                                            0 - 1, TRUE, t, ub)>>]
    /\ UNCHANGED <<progvars, cin>>

NextCalc == CalcApply

SpecCalc == InitCalc /\ [][NextCalc]_vars

\* ---------------------------------- the rate functions on two current points
\* The counter values and the elapsed ticks the comparison is run on.
MonoVals == {0, 1, 3, 5, 50, 100, 200, 250, U64Mod - 1}
MonoPrevs == {0, 3, 100}
MonoTicks == {1, 3, NANOSEC_PER_SEC, 2 * NANOSEC_PER_SEC, 7 * NANOSEC_PER_SEC}

\* Two current records a and b taken at the same time, and one previous
\* record.
InitMono ==
    /\ pc = "mono"
    /\ ci = 1
    /\ heap = <<>>
    /\ record = 0
    /\ prev = 0
    /\ clock = 0
    /\ kern = [j \in 1 .. NCalls |-> ZeroCpus]
    /\ fed = FALSE
    /\ out = <<>>
    /\ todo = <<>>
    /\ cycle = 0
    /\ stderr = <<>>
    /\ status = 0 - 1
    /\ sig = "none"
    /\ unlinked = FALSE
    /\ ifindex = 1
    /\ failed = {}
    /\ nomem = FALSE
    /\ views = <<>>
    /\ cin \in {[a |-> CalcRecord(1 + ns, Datarec(x, y)),
                  b |-> CalcRecord(1 + ns, Datarec(y, x)),
                  prev |-> CalcRecord(1, Datarec(p, p))] :
                   x \in MonoVals, y \in MonoVals, p \in MonoPrevs,
                   ns \in MonoTicks}
    /\ cout = [done |-> FALSE]

\* calc_pps and calc_drop_pps of both current records against the previous
\* one, in one build (one outcome of the out-of-range conversion).
MonoApply ==
    /\ pc = "mono"
    /\ ~cout.done
    /\ \E ub \in UBConv :
         LET ta == calc_period(cin.a, cin.prev)
             tb == calc_period(cin.b, cin.prev)
         IN cout' = [done |-> TRUE, ta |-> ta, tb |-> tb,
                     ppsA |-> calc_pps(cin.a.total, cin.prev.total, ta, ub),
                     ppsB |-> calc_pps(cin.b.total, cin.prev.total, tb, ub),
                     dropA |-> calc_drop_pps(cin.a.total, cin.prev.total, ta, ub),
                     dropB |-> calc_drop_pps(cin.b.total, cin.prev.total, tb, ub)]
    /\ UNCHANGED <<progvars, cin>>

NextMono == MonoApply

SpecMono == InitMono /\ [][NextMono]_vars

\* ================================================================ claims
InLoop == pc \in {"swap", "collect", "print_enter", "print", "sleep"}
LastOf(q) == q[Len(q)]

RECURSIVE SumOfField(_, _, _)
SumOfField(cpus, n, f) ==
    IF n = 0 THEN 0 ELSE (SumOfField(cpus, n - 1, f) + cpus[n - 1][f]) % U64Mod

\* C1: in both snapshot buffers, at every moment (so after every
\* map_collect_percpu, successful or failed, and whenever stats_print reads),
\* every record's total.processed is the sum modulo 2^64 of its per-CPU
\* processed values and its total.dropped the sum of its per-CPU dropped
\* values; a record whose per-CPU array was never obtained keeps total 0.
C1_TotalIsSum ==
    \A b \in 1 .. Len(heap) : \A j \in 1 .. NCalls :
        LET r == RecAt(heap[b], StatsCollectCalls[j])
        IN IF r.cpu = NULL
           THEN r.total = Datarec(0, 0)
           ELSE /\ r.total.processed = SumOfField(r.cpu, NrCpus, "processed")
                /\ r.total.dropped = SumOfField(r.cpu, NrCpus, "dropped")

\* C1 witness: a report has been printed in a cycle with a failed lookup, and
\* the rx_cnt total it read had wrapped (it is below one of its summands).
C1_Witness ==
    /\ pc = "sleep"
    /\ failed # {}
    /\ heap[record].rx_cnt.cpu # NULL
    /\ heap[record].rx_cnt.total.processed < heap[record].rx_cnt.cpu[0].processed
    /\ heap[record].rx_cnt.total.dropped > 0

\* The stand-alone computation's inputs.
Elapsed == U64(cin.rec.timestamp - cin.prev.timestamp + U64Mod)
DeltaProcessed == U64(cin.rec.total.processed - cin.prev.total.processed + U64Mod)
DeltaDropped == U64(cin.rec.total.dropped - cin.prev.total.dropped + U64Mod)

\* C2 as stated: with the elapsed time ns = curr.timestamp - prev.timestamp
\* (not below 0), calc_pps is 0 for ns = 0 and otherwise exactly
\* floor(D / (ns / NANOSEC_PER_SEC)), D the __u64 difference of the counters;
\* calc_drop_pps likewise.
C2_ExactFloor ==
    (cout.done /\ cin.rec.timestamp >= cin.prev.timestamp) =>
        LET ns == cin.rec.timestamp - cin.prev.timestamp
        IN /\ cout.pps = (IF ns = 0 THEN 0
                          ELSE (DeltaProcessed * NANOSEC_PER_SEC) \div ns)
           /\ cout.drop = (IF ns = 0 THEN 0
                           ELSE (DeltaDropped * NANOSEC_PER_SEC) \div ns)

\* The bounds of the rounding error of the double arithmetic on D / period:
\* four roundings to MantBits bits, then the truncation.
RateLo(d) == (d * NANOSEC_PER_SEC * (MantLimit - 5)) \div (Elapsed * MantLimit)
RateHi(d) == (d * NANOSEC_PER_SEC * (MantLimit + 5)) \div (Elapsed * MantLimit)
RateOk(d, rate) ==
    /\ Elapsed = 0 => rate = 0
    /\ (Elapsed > 0 /\ Elapsed % NANOSEC_PER_SEC = 0 /\ Elapsed < MantLimit
        /\ d < MantLimit) => rate = d \div (Elapsed \div NANOSEC_PER_SEC)
    /\ (Elapsed > 0 /\ RateHi(d) < U64Mod) => (RateLo(d) <= rate /\ rate <= RateHi(d))
    /\ (Elapsed > 0 /\ RateHi(d) >= U64Mod) =>
          (rate \in UBConv \/ (RateLo(d) <= rate /\ rate < U64Mod))
    /\ (Elapsed > 0 /\ RateLo(d) >= U64Mod) => rate \in UBConv

\* C2 amended: calc_pps is 0 when the period is 0.  Otherwise, with D the
\* __u64 (wrapping) difference of the counters: it is exactly floor(D / period)
\* when the period is a whole number of seconds and D and the elapsed ticks are
\* exactly representable as doubles; and whenever the quotient fits a __u64 it
\* is floor(D / period) up to the rounding error of the double arithmetic;
\* a quotient that does not fit a __u64 converts to an unspecified value.
\* calc_drop_pps is the same on 'dropped'.
C2_RoundedFloor ==
    cout.done => (RateOk(DeltaProcessed, cout.pps) /\ RateOk(DeltaDropped, cout.drop))

\* C2 witness: the example's totals, prev 100 and curr 250 one second apart,
\* give 150.
C2_Witness ==
    /\ cout.done
    /\ cin.prev.timestamp = 0 /\ cin.rec.timestamp = NANOSEC_PER_SEC
    /\ cin.prev.total.processed = 100 /\ cin.rec.total.processed = 250
    /\ cout.pps = 150

\* C3: when the two timestamps are equal, calc_period is 0 and every rate
\* derived from the pair is 0, whatever the counters: no per-CPU row, and a
\* total row with pps 0 and drop 0.
C3_EqualTimestamps ==
    (cout.done /\ cin.rec.timestamp = cin.prev.timestamp) =>
        /\ cout.t = DblZero
        /\ cout.pps = 0 /\ cout.drop = 0
        /\ \A n \in 1 .. Len(cout.rows) :
             cout.rows[n].kind = "total" /\ cout.rows[n].pps = 0
             /\ cout.rows[n].drop = 0

\* C3 witness: equal timestamps with both counters changed.
C3_Witness ==
    /\ cout.done
    /\ cin.rec.timestamp = cin.prev.timestamp
    /\ DeltaProcessed > 0 /\ DeltaDropped > 0

\* C4 as stated: when curr.timestamp is earlier than prev.timestamp, the
\* period is 0 and every rate derived from the pair is 0.
C4_EarlierTimestamp ==
    (cout.done /\ cin.rec.timestamp < cin.prev.timestamp) =>
        /\ cout.t = DblZero
        /\ cout.pps = 0 /\ cout.drop = 0
        /\ \A n \in 1 .. Len(cout.rows) : cout.rows[n].pps = 0

\* C5 as stated: when in a cycle the only failed lookup is that of enqueue
\* target k, the report's lines for target k (if any) show pps 0, and every
\* other line is what it would be had that lookup succeeded.
C5_FailedTargetShowsNoRate ==
    (pc = "sleep" /\ ~nomem /\ Cardinality(failed) = 1
     /\ \A j \in failed : StatsCollectCalls[j].rec = "enq") =>
        LET j == CHOOSE x \in failed : TRUE
            c == StatsCollectCalls[j]
            ofK(r) == r.label = "cpumap-enqueue" /\ r.to = c.key
            other(r) == ~ofK(r)
            hypo == RecPut(heap[record], c,
                           map_collect_percpu(RecAt(heap[record], c), kern[j],
                                              U64(clock)))
        IN /\ \A n \in 1 .. Len(out) : ofK(out[n]) => out[n].pps = 0
           /\ \A ub \in UBConv :
                SelectSeq(out, other)
                  = SelectSeq(stats_print(hypo, heap[prev], ub), other)

\* C6 as stated: when the process has ended through the cancellation signal,
\* what reached stdout of the last report is nothing or the whole report,
\* ending with the blank line.
C6_NoPartialReport ==
    (pc = "exited" /\ sig = "handler") =>
        (out = <<>> \/ LastOf(out).kind = "blank")

\* C7: once SIGINT is delivered, the only step the process takes is the exit
\* with status EXIT_OK after set_link_xdp_fd(ifindex, -1) has returned (no
\* lookup, no line printed), and the process does eventually end that way.
C7_SignalEndsProcess ==
    /\ [](sig = "handler" => <>(pc = "exited" /\ status = EXIT_OK /\ unlinked))
    /\ [][sig = "handler" =>
            (pc' = "exited" /\ status' = EXIT_OK /\ unlinked'
             /\ out' = out /\ kern' = kern /\ clock' = clock)]_vars

\* C7 witness: the signal came while a report was being printed, and the
\* process has ended with the attachment removed.
C7_Witness ==
    /\ pc = "exited" /\ sig = "handler" /\ unlinked /\ status = EXIT_OK
    /\ out # <<>> /\ LastOf(out).kind # "blank"

\* C8 as stated: a failure inside a cycle (a message on stderr from a lookup
\* or from gettime) does not end the process: stats_collect goes on.
C8_NoFailureEndsLoop ==
    [][(pc = "collect" /\ sig = "none" /\ stderr' # stderr) =>
          pc' \in {"collect", "print_enter"}]_vars

\* C8 amended: in the loop a failed lookup leaves the buffers as they are and
\* stats_collect goes on with the next lookup or with the report; a failed
\* timestamp read ends the process with EXIT_FAIL.  The loop ends only
\* through the signal, a failed timestamp read, or the fault on a null
\* per-CPU array left by a failed malloc.
C8_OnlyLookupFailureRecovers ==
    /\ [][(pc = "collect" /\ sig = "none" /\ stderr' # stderr) =>
            IF LastOf(stderr') = MsgGettime
            THEN pc' = "exited" /\ status' = EXIT_FAIL
            ELSE /\ pc' \in {"collect", "print_enter"}
                 /\ heap' = heap /\ record' = record /\ prev' = prev]_vars
    /\ [][(InLoop /\ pc' \notin {"swap", "collect", "print_enter", "print", "sleep"}) =>
            \/ sig = "handler" /\ pc' = "exited" /\ status' = EXIT_OK
            \/ pc = "collect" /\ pc' = "exited" /\ status' = EXIT_FAIL
               /\ LastOf(stderr') = MsgGettime
            \/ pc' = "crashed" /\ nomem]_vars

\* C8 witness: a lookup failed in a cycle whose report was then printed, the
\* loop slept and stands at the start of the next cycle.
C8_Witness == pc = "swap" /\ cycle >= 1 /\ failed # {} /\ sig = "none"

\* C9 as stated: once a malloc has returned NULL, the process has printed the
\* allocation message and exited with EXIT_FAIL_MEM, nothing else.
C9_AllocFailureExits ==
    nomem => (pc = "exited" /\ status = EXIT_FAIL_MEM /\ stderr = <<MsgMem>>)

\* C10: the swap step exchanges the two pointers and nothing else: 'prev' is
\* the buffer that was 'record' and 'record' the one that was 'prev', the
\* buffers and their number are unchanged, and swapping twice gives the
\* original pair.
C10_SwapExchanges ==
    [][(pc = "swap" /\ pc' = "collect") =>
          /\ prev' = record /\ record' = prev
          /\ heap' = heap
          /\ swap(swap(prev, record)[1], swap(prev, record)[2]) = <<prev, record>>]_vars

\* C10 witness: after the second swap the names are back on their first
\* buffers, which differ in content.
C10_Witness ==
    /\ pc = "collect" /\ ci = 1 /\ cycle = 1
    /\ record = 1 /\ prev = 2
    /\ heap[1] # heap[2]

\* The history of the latest stats_collect, of the one before it, and of the
\* one before that.
ViewCur == views[Len(views)]
ViewPrev == views[Len(views) - 1]
ViewOld == views[Len(views) - 2]

\* The first report is being printed, or about to be.
FirstReport == cycle = 0 /\ pc \in {"print_enter", "print"}
CallIdx == 1 .. NCalls
RecOf(b, j) == RecAt(heap[b], StatsCollectCalls[j])

\* C11: stats_collect runs once before the loop, into 'record', and nothing is
\* printed for it; it is never run as a baseline again.  The first report
\* follows the second stats_collect and compares it with the baseline: when
\* the clock advanced between the two, every record whose lookup succeeded
\* in the second one has a period above 0.
C11_BaselineThenFirstReport ==
    /\ [](pc \in {"alloc_record", "alloc_prev", "baseline"} =>
            (out = <<>> /\ todo = <<>> /\ cycle = 0 /\ views = <<>>))
    /\ [][pc' = "baseline" => pc \in {"alloc_prev", "baseline"}]_vars
    /\ [][(pc = "baseline" /\ pc' \notin {"baseline", "exited", "crashed"}) =>
            (pc' = "swap" /\ Len(views') = 1 /\ out' = <<>>
             /\ \A j \in CallIdx \ failed' :
                  RecOf(record, j)' = map_collect_percpu(RecOf(record, j),
                                                         kern[j], U64(clock)))]_vars
    /\ [](FirstReport =>
            /\ Len(views) = 2
            /\ views[1].t < views[2].t =>
                 \A j \in CallIdx \ views[2].f :
                    DblGtZero(calc_period(RecOf(record, j), RecOf(prev, j))))

\* C11 witness: the first report is being printed, the clock advanced after
\* the baseline, every lookup succeeded, and the XDP-RX total shows a rate.
C11_Witness ==
    /\ pc = "print" /\ cycle = 0
    /\ views[1].t < views[2].t
    /\ views[1].f = {} /\ views[2].f = {}
    /\ \E n \in 1 .. Len(out) :
         out[n].label = "XDP-RX" /\ out[n].kind = "total" /\ out[n].pps > 0
         /\ DblGtZero(out[n].t)

\* The label and the target column of the rows printed for lookup j.
LabelOf(j) ==
    LET c == StatsCollectCalls[j]
    IN IF c.rec = "rx_cnt" THEN "XDP-RX"
       ELSE IF c.rec = "enq" THEN "cpumap-enqueue"
       ELSE IF c.rec = "kthread" THEN "cpumap_kthread"
       ELSE "redirect_err"
ToOf(j) ==
    LET c == StatsCollectCalls[j] IN IF c.rec = "enq" THEN c.key ELSE 0 - 1
IsEnq(j) == StatsCollectCalls[j].rec = "enq"

\* The places in the report of the rows of lookup j: the row of CPU i, the
\* total row.
CpuRowsAt(j, i) ==
    {n \in 1 .. Len(out) : /\ out[n].label = LabelOf(j) /\ out[n].to = ToOf(j)
                           /\ out[n].kind = "cpu" /\ out[n].i = i}
TotalRowsAt(j) ==
    {n \in 1 .. Len(out) : /\ out[n].label = LabelOf(j) /\ out[n].to = ToOf(j)
                           /\ out[n].kind = "total"}

\* The rates stats_print computes for lookup j's record pair.
PeriodOf(j) == calc_period(RecOf(record, j), RecOf(prev, j))
CpuPps(j, i, ub) ==
    IF RecOf(record, j).cpu = NULL \/ RecOf(prev, j).cpu = NULL THEN 0
    ELSE calc_pps(RecOf(record, j).cpu[i], RecOf(prev, j).cpu[i], PeriodOf(j), ub)
CpuDropPps(j, i, ub) ==
    IF RecOf(record, j).cpu = NULL \/ RecOf(prev, j).cpu = NULL THEN 0
    ELSE calc_drop_pps(RecOf(record, j).cpu[i], RecOf(prev, j).cpu[i],
                       PeriodOf(j), ub)
TotalPps(j, ub) ==
    calc_pps(RecOf(record, j).total, RecOf(prev, j).total, PeriodOf(j), ub)

\* The two snapshots hold the same counters in every record.
SameCounters ==
    \A j \in CallIdx : /\ RecOf(record, j).total = RecOf(prev, j).total
                       /\ RecOf(record, j).cpu = RecOf(prev, j).cpu

\* C12: in a complete report the row of CPU i of a block is there (once)
\* exactly when its pps is not 0; the XDP-RX, cpumap_kthread and redirect_err
\* total rows are there once whatever their value; the sum row of an enqueue
\* target is there (once) exactly when its pps is not 0.  So when the two
\* snapshots hold the same counters the report is the header, these three
\* total rows with pps 0, and the blank line.
C12_RowsShownWhenNonzero ==
    pc = "sleep" =>
      \E ub \in UBConv :
        /\ \A j \in CallIdx :
             /\ \A i \in CpuIdx :
                  Cardinality(CpuRowsAt(j, i)) = (IF CpuPps(j, i, ub) > 0 THEN 1 ELSE 0)
             /\ Cardinality(TotalRowsAt(j))
                  = (IF IsEnq(j) /\ TotalPps(j, ub) = 0 THEN 0 ELSE 1)
        /\ \A n \in 1 .. Len(out) : out[n].kind = "cpu" => out[n].pps > 0
        /\ SameCounters =>
             /\ Len(out) = 5
             /\ \A n \in 2 .. 4 : out[n].kind = "total" /\ out[n].pps = 0
             /\ {out[n].label : n \in 2 .. 4}
                  = {"XDP-RX", "cpumap_kthread", "redirect_err"}

\* C12 witness: a complete report in which one CPU of the XDP-RX block has a
\* row, an enqueue target has its rows and its sum row, another enqueue target
\* has none, and a total row with pps 0 is printed.
C12_Witness ==
    /\ pc = "sleep"
    /\ \E n \in 1 .. Len(out) : out[n].label = "XDP-RX" /\ out[n].kind = "cpu"
    /\ \E j \in CallIdx :
         IsEnq(j) /\ TotalRowsAt(j) # {} /\ (\E i \in CpuIdx : CpuRowsAt(j, i) # {})
    /\ \E j \in CallIdx :
         IsEnq(j) /\ TotalRowsAt(j) = {} /\ (\A i \in CpuIdx : CpuRowsAt(j, i) = {})
    /\ \E n \in 1 .. Len(out) : out[n].kind = "total" /\ out[n].pps = 0

\* Every lookup of the last two stats_collect calls succeeded.
BothCollected == Len(views) >= 2 /\ ViewCur.f = {} /\ ViewPrev.f = {}

\* C13 as stated: in a complete report (here: of two snapshots whose lookups
\* all succeeded), the cpumap_kthread block and the redirect_err block have a
\* row for every CPU whose pps or whose drop rate is not 0.
C13_RowForDropOnlyCpu ==
    (pc = "sleep" /\ BothCollected) =>
      \E ub \in UBConv :
        \A j \in CallIdx : \A i \in CpuIdx :
          (StatsCollectCalls[j].rec \in {"kthread", "redir_err"}
           /\ (CpuPps(j, i, ub) > 0 \/ CpuDropPps(j, i, ub) > 0))
            => CpuRowsAt(j, i) # {}

\* The place of a row in the fixed order of a report: its block, then
\* per-CPU rows by CPU before the block's total row.
BlockNo(r) ==
    IF r.kind = "header" THEN 0
    ELSE IF r.label = "XDP-RX" THEN 1
    ELSE IF r.label = "cpumap-enqueue" THEN 2 + r.to
    ELSE IF r.label = "cpumap_kthread" THEN 2 + MAX_CPUS
    ELSE IF r.label = "redirect_err" THEN 3 + MAX_CPUS
    ELSE 4 + MAX_CPUS
Before(a, b) ==
    \/ BlockNo(a) < BlockNo(b)
    \/ /\ BlockNo(a) = BlockNo(b)
       /\ a.kind = "cpu"
       /\ (b.kind = "total" \/ (b.kind = "cpu" /\ a.i < b.i))

\* C14: at every moment the lines printed so far of a report are in the fixed
\* order: header; XDP-RX rows by CPU, then its total; for each target in
\* ascending order its cpumap-enqueue rows by CPU, then its sum; the
\* cpumap_kthread rows and total; the redirect_err rows and total; the blank
\* line.  A complete report starts with the header and ends with the blank
\* line.
C14_FixedRowOrder ==
    /\ \A m, n \in 1 .. Len(out) : m < n => Before(out[m], out[n])
    /\ out # <<>> => out[1].kind = "header"
    /\ pc = "sleep" => (out # <<>> /\ out[Len(out)].kind = "blank")

\* C14 witness: a complete report with per-CPU rows of two CPUs in the XDP-RX
\* block, rows and sum rows of two enqueue targets, and rows in the
\* cpumap_kthread and redirect_err blocks.
C14_Witness ==
    /\ pc = "sleep"
    /\ \A i \in {0, 1} : \E n \in 1 .. Len(out) :
         out[n].label = "XDP-RX" /\ out[n].kind = "cpu" /\ out[n].i = i
    /\ \A k \in {0, 1} : \A kd \in {"cpu", "total"} : \E n \in 1 .. Len(out) :
         out[n].label = "cpumap-enqueue" /\ out[n].to = k /\ out[n].kind = kd
    /\ \A lb \in {"cpumap_kthread", "redirect_err"} : \E n \in 1 .. Len(out) :
         out[n].label = lb /\ out[n].kind = "cpu"

C16_RateMonotone ==
    cout.done =>
      LET pp == cin.prev.total.processed
          pd == cin.prev.total.dropped
      IN /\ (cin.a.total.processed >= cin.b.total.processed
             /\ cin.b.total.processed >= pp /\ cout.ta = cout.tb
             /\ DblGtZero(cout.ta)) => cout.ppsA >= cout.ppsB
         /\ (cin.a.total.dropped >= cin.b.total.dropped
             /\ cin.b.total.dropped >= pd /\ cout.ta = cout.tb
             /\ DblGtZero(cout.ta)) => cout.dropA >= cout.dropB

\* What a stats_collect whose lookups all succeed leaves in record j, given
\* the clock and counters of view v.
Collected(v, j) == map_collect_percpu(ZeroRecord, v.k[j], v.t)

\* C17: the steps of the loop follow one another in the order swap,
\* stats_collect, stats_print, sleep, swap, ...; and whenever a report is
\* printed after two stats_collect calls whose lookups all succeeded, every
\* record of 'record' holds what the latest call collected and every record
\* of 'prev' what the call before it collected (the baseline for the first
\* report), the two being different buffers.
C17_CycleOrderAndPairing ==
    /\ [][(InLoop /\ pc' # pc /\ pc' \notin {"exited", "crashed"}) =>
            <<pc, pc'>> \in {<<"swap", "collect">>, <<"collect", "print_enter">>,
                            <<"print_enter", "print">>, <<"print", "sleep">>,
                            <<"sleep", "swap">>}]_vars
    /\ []((pc \in {"print_enter", "print", "sleep"} /\ BothCollected) =>
            /\ record # prev
            /\ \A j \in CallIdx :
                 /\ RecOf(record, j) = Collected(ViewCur, j)
                 /\ RecOf(prev, j) = Collected(ViewPrev, j))

\* C17 witness: the second report is complete, every lookup of the last two
\* stats_collect calls succeeded, and traffic and time passed between them.
C17_Witness ==
    /\ pc = "sleep" /\ cycle = 2
    /\ BothCollected
    /\ ViewPrev.k # ViewCur.k /\ ViewPrev.t < ViewCur.t
    /\ ViewPrev.t > 0

\* A step of stats_collect that stays in the program: one map_collect_percpu.
CollectStep == InCollect /\ sig = "none" /\ pc' \notin {"exited", "crashed"} /\ ci' # ci

\* C18: a map_collect_percpu whose lookup fails leaves both buffers exactly as
\* they were and stats_collect goes on to the next lookup (no retry); every
\* map_collect_percpu writes at most its own record; the lookups of a
\* stats_collect are made once each, in order; so when stats_collect has
\* returned, every record whose lookup did not fail holds what this call read.
C18_FailureConfined ==
    /\ [][(CollectStep /\ stderr' # stderr) =>
            /\ LastOf(stderr') = MsgLookup(StatsCollectCalls[ci].key)
            /\ heap' = heap /\ record' = record /\ prev' = prev]_vars
    /\ [][CollectStep =>
            /\ \/ ci < NCalls /\ ci' = ci + 1 /\ pc' = pc
               \/ ci = NCalls /\ ci' = 1 /\ pc' \in {"swap", "print_enter"}
            /\ record' = record /\ prev' = prev /\ heap'[prev] = heap[prev]
            /\ \A j \in CallIdx \ {ci} : RecOf(record, j)' = RecOf(record, j)]_vars
    /\ [](pc \in {"print_enter", "print", "sleep"} =>
            \A j \in CallIdx \ failed :
               RecOf(record, j) = Collected(LastOf(views), j))

\* C18 witness: stats_collect has returned with one lookup failed; that
\* record still holds the values of two calls earlier, not those this call
\* would have read, and the other records hold this call's values.
C18_Witness ==
    /\ pc = "print_enter" /\ cycle >= 1
    /\ \E j \in failed :
         /\ RecOf(record, j).timestamp > 0
         /\ RecOf(record, j).timestamp < LastOf(views).t
         /\ RecOf(record, j).total # Collected(LastOf(views), j).total
         /\ \A m \in CallIdx \ {j} : RecOf(record, m).timestamp = LastOf(views).t

\* stats_poll is past its two allocations and the process has not ended.
Allocated == pc \in {"baseline", "swap", "collect", "print_enter", "print", "sleep"}

\* The swaps done so far: one per report started.
SwapsDone ==
    IF pc \in {"baseline", "swap"} THEN cycle
    ELSE IF pc = "sleep" THEN cycle
    ELSE cycle + 1

\* C19: once both allocations are done and as long as the process lives,
\* there are exactly two buffers, 'record' and 'prev' point to different ones,
\* no step adds, removes or replaces a buffer, and the buffer 'record' points
\* to alternates with every swap: the first buffer after an even number of
\* swaps, the second after an odd number.
C19_TwoBuffersAlternate ==
    /\ [](Allocated =>
            /\ Len(heap) = 2
            /\ record # prev /\ {record, prev} = {1, 2}
            /\ record = (IF SwapsDone % 2 = 0 THEN 1 ELSE 2))
    /\ [][(Allocated /\ pc' \notin {"exited", "crashed"}) =>
            (Len(heap') = Len(heap) /\ {record', prev'} = {record, prev})]_vars

\* C19 witness: the second report is complete; the first buffer, current at
\* the baseline and previous in the first report, is current again, and both
\* buffers hold collected data.
C19_Witness ==
    /\ pc = "sleep" /\ cycle = 2
    /\ record = 1 /\ prev = 2
    /\ heap[2].rx_cnt.timestamp > 0
    /\ heap[1].rx_cnt.timestamp > heap[2].rx_cnt.timestamp

\* The sum of n per-CPU values of field f as a number, without wrapping.
RECURSIVE ExactSum(_, _, _)
ExactSum(cpus, n, f) ==
    IF n = 0 THEN 0 ELSE ExactSum(cpus, n - 1, f) + cpus[n - 1][f]

\* Record a is not ahead of record b: its timestamp and each per-CPU counter
\* are not greater, and neither are its totals unless b's sum has wrapped.
NotAhead(a, b) ==
    /\ a.timestamp <= b.timestamp
    /\ (a.cpu # NULL /\ b.cpu # NULL) =>
         /\ \A i \in CpuIdx : /\ a.cpu[i].processed <= b.cpu[i].processed
                              /\ a.cpu[i].dropped <= b.cpu[i].dropped
         /\ ExactSum(b.cpu, NrCpus, "processed") < U64Mod
              => a.total.processed <= b.total.processed
         /\ ExactSum(b.cpu, NrCpus, "dropped") < U64Mod
              => a.total.dropped <= b.total.dropped

\* C20: when stats_collect has returned with the lookup of record j failed,
\* 'record' holds for j what was last written into that buffer: the values of
\* the call two calls earlier when that call's lookup of j succeeded, the
\* zeroed initial state when there was no such call; and when the lookup of j
\* succeeded in the call before, 'prev' holds that call's values, so the
\* current record is not ahead of the previous one (timestamp and counters
\* not greater, the counters only growing).
C20_StaleCurrentNotAhead ==
    pc \in {"print_enter", "print", "sleep"} =>
      \A j \in failed :
        /\ (Len(views) = 3 /\ j \notin ViewOld.f) =>
             /\ RecOf(record, j).timestamp = ViewOld.t
             /\ RecOf(record, j).cpu = ViewOld.k[j]
        /\ Len(views) = 2 =>
             /\ RecOf(record, j).timestamp = 0
             /\ RecOf(record, j).total = Datarec(0, 0)
             /\ RecOf(record, j).cpu \in {NULL, ZeroCpus}
        /\ j \notin ViewPrev.f =>
             /\ RecOf(prev, j).timestamp = ViewPrev.t
             /\ RecOf(prev, j).cpu = ViewPrev.k[j]
             /\ NotAhead(RecOf(record, j), RecOf(prev, j))

\* C20 witness: in the second report's cycle a lookup failed whose record was
\* collected in the two calls before; the current record is older than the
\* previous one and one of its counters is smaller.
C20_Witness ==
    /\ pc = "sleep" /\ Len(views) = 3
    /\ \E j \in failed :
         /\ j \notin ViewOld.f /\ j \notin ViewPrev.f
         /\ 0 < RecOf(record, j).timestamp
         /\ RecOf(record, j).timestamp < RecOf(prev, j).timestamp
         /\ RecOf(record, j).total.processed < RecOf(prev, j).total.processed
         /\ RecOf(record, j).cpu[0].processed < RecOf(prev, j).cpu[0].processed

=============================================================================
